---- MODULE Spec2Model ----
(***************************************************************************)
(* A model of the DNS log aggregation of notebooks/dns.ipynb: the split of *)
(* the log text into rows and fields, the derivation of domain and         *)
(* subdomain from the query of field 9, the safelist filter, the nested    *)
(* counters of `queries`, and shannon_entropy.                             *)
(*                                                                         *)
(* A Python str is a sequence of one-character strings.  A float is the    *)
(* real number it stands for: an entropy is a finite sum of terms          *)
(* q * log2(p) with q rational and p prime, and is kept as the vector of   *)
(* its rational coefficients, one per prime (the logarithms of the primes  *)
(* are linearly independent over the rationals, so two entropies are equal *)
(* as reals exactly when their vectors are equal).  The rounding of IEEE   *)
(* arithmetic is outside this model.                                       *)
(***************************************************************************)
EXTENDS Integers, Sequences, FiniteSets, TLC

VARIABLES
    rows,        \* cell 2: log.split("\n")
    safelist,    \* cell 4: the list of strings to ignore
    queries,     \* cell 4: domain -> [count, subdomains]
    i,           \* position of the for loop in rows (1-based), Len(rows)+1 at the end
    pc,          \* "loop" | "done" | "error"; "derive" | "derived"; "entropy" | "returned"
    err,         \* the exception that ended the run, "none" if none did
    run,         \* how many times cell 4 was started again
    prev,        \* queries as the previous run of cell 4 left it
    computed,    \* <<domain, subdomain>> -> calls of shannon_entropy(subdomain) in this run
    query,       \* loop variable of cell 4
    domain,      \* loop variable of cell 4
    subdomain,   \* loop variable of cell 4
    data,        \* argument of shannon_entropy
    entropy      \* value returned by shannon_entropy

vars == <<rows, safelist, queries, i, pc, err, run, prev, computed,
          query, domain, subdomain, data, entropy>>

----------------------------------------------------------------------------
(* Bounds of the model *)

\* rows of a log text
MaxRows == 2
\* further executions of the aggregation cell after the first
MaxRuns == 1
\* length of a query string in SpecDerive
MaxQLen == 5
\* length of a string handed to shannon_entropy in SpecEntropy
MaxDataLen == 5

(* Program constants *)

\* if len(splitted_line) < 24
MinFields == 24
\* query: str = splitted_line[9]   (0-based index)
QueryField == 9

----------------------------------------------------------------------------
(* Python str and list operations *)

Range(s) == {s[k] : k \in DOMAIN s}

Max(a, b) == IF a < b THEN b ELSE a

\* s[from:] on a 1-based sequence
Drop(s, n) == SubSeq(s, n + 1, Len(s))

\* s.startswith(p)
StartsWith(s, p) == Len(p) <= Len(s) /\ SubSeq(s, 1, Len(p)) = p

\* position of the first occurrence of the character ch in s, 0 if none
RECURSIVE Find(_, _, _)
Find(s, ch, k) ==
    IF k > Len(s) THEN 0
    ELSE IF s[k] = ch THEN k
    ELSE Find(s, ch, k + 1)

\* s.split(sep) for a one-character separator: always at least one field
RECURSIVE Split(_, _)
Split(s, sep) ==
    LET k == Find(s, sep, 1) IN
    IF k = 0 THEN <<s>>
    ELSE <<SubSeq(s, 1, k - 1)>> \o Split(Drop(s, k), sep)

\* sep.join(parts)
RECURSIVE Join(_, _)
Join(parts, sep) ==
    IF Len(parts) = 0 THEN <<>>
    ELSE IF Len(parts) = 1 THEN parts[1]
    ELSE parts[1] \o sep \o Join(Tail(parts), sep)

\* parts[-2:]
LastTwo(parts) == SubSeq(parts, Max(1, Len(parts) - 1), Len(parts))

\* s[:-1]
DropLast(s) == SubSeq(s, 1, Len(s) - 1)

\* s.replace(old, ""): every non-overlapping occurrence of old, scanning from
\* the left, is removed; an empty old leaves s as it is
RECURSIVE Replace(_, _)
Replace(s, old) ==
    IF Len(old) = 0 \/ Len(s) < Len(old) THEN s
    ELSE IF StartsWith(s, old) THEN Replace(Drop(s, Len(old)), old)
    ELSE <<s[1]>> \o Replace(Tail(s), old)

\* a variant of InList: an entry matches when it occurs anywhere in x
InListSubstring(x, list) ==
    \E k \in DOMAIN list : \E j \in 0..(Len(x) - Len(list[k])) :
        SubSeq(x, j + 1, j + Len(list[k])) = list[k]

\* x in list
InList(x, list) == \E k \in DOMAIN list : list[k] = x

----------------------------------------------------------------------------
(* Exact arithmetic for shannon_entropy *)

RECURSIVE Gcd(_, _)
Gcd(a, b) == IF b = 0 THEN a ELSE Gcd(b, a % b)

Abs(a) == IF a < 0 THEN -a ELSE a

\* the rational n/d in lowest terms, as <<numerator, denominator>>, d > 0
Rat(n, d) ==
    LET g == Gcd(Abs(n), Abs(d))
        sgn == IF d < 0 THEN -1 ELSE 1
    IN <<sgn * (n \div g), sgn * (d \div g)>>

RatAdd(x, y) == Rat(x[1] * y[2] + y[1] * x[2], x[2] * y[2])

RatMul(x, y) == Rat(x[1] * y[1], x[2] * y[2])

RatNeg(x) == <<-x[1], x[2]>>

IsPrime(p) == p > 1 /\ \A d \in 2..(p - 1) : p % d # 0

\* the primes that can divide a count or a length of the strings of the model
Primes == {p \in 2..(MaxDataLen + 2) : IsPrime(p)}

\* exponent of the prime p in the positive integer n
RECURSIVE Val(_, _)
Val(p, n) == IF n % p = 0 THEN 1 + Val(p, n \div p) ELSE 0

\* math.log(x, 2) of a positive rational x: sum over p of (Val(p, num) - Val(p, den)) * log2(p)
Log2(x) == [p \in Primes |-> Rat(Val(p, x[1]) - Val(p, x[2]), 1)]

\* the real number 0 (Python: entropy = 0)
Zero == [p \in Primes |-> Rat(0, 1)]

\* q * v for a rational q and a real v
Scale(q, v) == [p \in Primes |-> RatMul(q, v[p])]

\* v + w
Plus(v, w) == [p \in Primes |-> RatAdd(v[p], w[p])]

\* Counter(data): character -> number of occurrences
Counter(s) == [ch \in Range(s) |-> Cardinality({k \in DOMAIN s : s[k] = ch})]

----------------------------------------------------------------------------
(* shannon_entropy *)

\* if not data
EmptyData(s) == Len(s) = 0

\* a variant of DataLength: the number of distinct characters
DataLengthDistinct(s) == Cardinality(Range(s))

\* length = len(data)
DataLength(s) == Len(s)

\* -p_x * math.log(p_x, 2) with p_x = count / length
Term(count, length) ==
    LET p_x == Rat(count, length)
    IN Scale(RatNeg(p_x), Log2(p_x))

\* for count in counts.values(): entropy += ...
RECURSIVE SumTerms(_, _, _)
SumTerms(counts, chars, length) ==
    IF chars = {} THEN Zero
    ELSE LET ch == CHOOSE c \in chars : TRUE
         IN Plus(Term(counts[ch], length), SumTerms(counts, chars \ {ch}, length))

shannon_entropy(s) ==
    IF EmptyData(s) THEN Zero
    ELSE SumTerms(Counter(s), Range(s), DataLength(s))

\* the exception shannon_entropy raises on s, "none" if it returns:
\* count / length divides by zero, math.log(0, 2) is a domain error
EntropyError(s) ==
    IF EmptyData(s) THEN "none"
    ELSE LET counts == Counter(s) IN
         IF DOMAIN counts # {} /\ DataLength(s) = 0 THEN "ZeroDivisionError"
         ELSE IF \E ch \in DOMAIN counts : counts[ch] = 0 THEN "ValueError"
         ELSE "none"

----------------------------------------------------------------------------
(* The body of the aggregation loop *)

\* queries: dict = {}
EmptyDict == [k \in {} |-> 0]

\* d[k] = v
Put(d, k, v) == [x \in DOMAIN d \cup {k} |-> IF x = k THEN v ELSE d[x]]

\* a variant of StartsWithHash: the loop without the test for "#"
StartsWithHashUnchecked(row) == FALSE

\* not row.startswith("#") is the condition to go on
StartsWithHash(row) == StartsWith(row, <<"#">>)

\* splitted_line: list = row.split("\t")
Fields(row) == Split(row, "\t")

\* a variant of TooShort: a line of exactly 24 fields is passed over too
TooShortOffByOne(splitted_line) == Len(splitted_line) <= MinFields

\* a variant of TooShort: the loop without the test of the field count
TooShortUnchecked(splitted_line) == FALSE

\* if len(splitted_line) < 24: continue
TooShort(splitted_line) == Len(splitted_line) < MinFields

\* splitted_line[9]
QueryOf(splitted_line) == splitted_line[QueryField + 1]

\* domain: str = ".".join(query.split(".")[-2:])
DomainOf(q) == Join(LastTwo(Split(q, ".")), <<".">>)

\* if domain in safelist or query in safelist: continue
Safelisted(d, q, list) == InList(d, list) \/ InList(q, list)

\* subdomain: str = query.replace(domain, "")[:-1]
SubdomainOf(q, d) == DropLast(Replace(q, d))

\* if domain not in queries.keys()
DomainIsNew(qs, d) == d \notin DOMAIN qs

\* a variant of SubdomainIsNew: the aggregate is initialised on every record
SubdomainIsNewAlways(qs, d, s) == TRUE

\* if subdomain not in queries[domain]["subdomains"].keys()
SubdomainIsNew(qs, d, s) == s \notin DOMAIN qs[d].subdomains

\* queries[domain] = {}; ["count"] = 0; ["subdomains"] = {}
WithDomain(qs, d) ==
    IF DomainIsNew(qs, d)
    THEN Put(qs, d, [count |-> 0, subdomains |-> EmptyDict])
    ELSE qs

\* a variant of WithSubdomain: the count of a new subdomain starts at the
\* count of its domain
WithSubdomainFromDomainCount(qs, d, s) ==
    IF s \notin DOMAIN qs[d].subdomains
    THEN [qs EXCEPT ![d].subdomains =
              Put(@, s, [count |-> qs[d].count, entropy |-> shannon_entropy(s)])]
    ELSE qs

\* queries[domain]["subdomains"][subdomain] = {}; ["count"] = 0; ["entropy"] = shannon_entropy(subdomain)
WithSubdomain(qs, d, s) ==
    IF SubdomainIsNew(qs, d, s)
    THEN [qs EXCEPT ![d].subdomains =
              Put(@, s, [count |-> 0, entropy |-> shannon_entropy(s)])]
    ELSE qs

\* a variant of Increment: only the count of the domain is incremented
IncrementDomainOnly(qs, d, s) == [qs EXCEPT ![d].count = @ + 1]

\* queries[domain]["count"] += 1; queries[domain]["subdomains"][subdomain]["count"] += 1
Increment(qs, d, s) ==
    [qs EXCEPT ![d].count = @ + 1, ![d].subdomains[s].count = @ + 1]

\* how far the body gets on the row, and the loop variables it assigns:
\* "comment" and "short" rows are passed over, "IndexError" is splitted_line[9]
\* on a list of fewer than 10 fields, "safelisted" rows are skipped after the
\* derivation of the domain, "counted" rows reach the counters
Outcome(row, list) ==
    IF StartsWithHash(row) THEN [kind |-> "comment"]
    ELSE LET f == Fields(row) IN
         IF TooShort(f) THEN [kind |-> "short"]
         ELSE IF Len(f) <= QueryField THEN [kind |-> "IndexError"]
         ELSE LET q == QueryOf(f)
                  d == DomainOf(q)
              IN IF Safelisted(d, q, list)
                 THEN [kind |-> "safelisted", query |-> q, domain |-> d]
                 ELSE [kind |-> "counted", query |-> q, domain |-> d,
                       subdomain |-> SubdomainOf(q, d)]

\* the exception the body raises on the row, "none" if it completes
RowError(qs, row, list) ==
    LET o == Outcome(row, list) IN
    IF o.kind = "IndexError" THEN "IndexError"
    ELSE IF o.kind # "counted" THEN "none"
    ELSE LET d == o.domain
             s == o.subdomain
             qs1 == WithSubdomain(WithDomain(qs, d), d, s)
         IN IF EntropyError(d) # "none" THEN EntropyError(d)
            ELSE IF SubdomainIsNew(WithDomain(qs, d), d, s) /\ EntropyError(s) # "none"
                 THEN EntropyError(s)
            ELSE IF d \notin DOMAIN qs1 \/ s \notin DOMAIN qs1[d].subdomains
                 THEN "KeyError"
            ELSE "none"

\* queries after one pass of the loop body over the row (the body completes)
Body(qs, row, list) ==
    LET o == Outcome(row, list) IN
    IF o.kind # "counted" THEN qs
    ELSE Increment(WithSubdomain(WithDomain(qs, o.domain), o.domain, o.subdomain),
                   o.domain, o.subdomain)

\* queries after the loop over rows[from..], started with qs
RECURSIVE Aggregate(_, _, _, _)
Aggregate(qs, rs, from, list) ==
    IF from > Len(rs) THEN qs
    ELSE Aggregate(Body(qs, rs[from], list), rs, from + 1, list)

----------------------------------------------------------------------------
(* Inputs *)

\* query strings of the log rows: three labels, a query equal to its domain,
\* a domain that also occurs before the suffix, the empty field, dots only,
\* a query that contains "b.c" without having it as domain, one label
LoopQueries ==
    { <<"a", "b", ".", "b", ".", "c">>,
      <<"b", ".", "c">>,
      <<"a", ".", "a", ".", "a">>,
      <<>>,
      <<".", ".">>,
      <<"b", ".", "c", ".", "a">>,
      <<"a">> }

\* a row of n tab-separated fields, "-" everywhere but q in field 9
MkRow(n, q) ==
    Join([k \in 1..n |-> IF k = QueryField + 1 THEN q ELSE <<"-">>], <<"\t">>)

\* the rows a log is made of: records of exactly 24 fields, a 25-field record,
\* a "#" line of 24 fields, a line one field short, and the empty line
LogRows ==
    {MkRow(MinFields, q) : q \in LoopQueries}
    \cup { MkRow(MinFields + 1, <<"a", "b", ".", "c", ".", "a">>),
           <<"#">> \o MkRow(MinFields, <<"a", "b", ".", "b", ".", "c">>),
           MkRow(MinFields - 1, <<"a", "b", ".", "b", ".", "c">>),
           <<>> }

\* the safelists: empty, and one with a domain entry and a full-query entry
Safelists ==
    { <<>>,
      << <<"b", ".", "c">>, <<"a", ".", "a", ".", "a">> >> }

\* every string over the alphabet of length at most n
Strings(alphabet, n) == UNION {[1..k -> alphabet] : k \in 0..n}

QueryStrings == Strings({"a", "b", "."}, MaxQLen)

DataStrings == Strings({"a", "b", "c", "d"}, MaxDataLen)

----------------------------------------------------------------------------
(* The aggregation cell: Spec *)

\* cells 2 and 4 up to the head of the for loop
Init ==
    /\ \E n \in 1..MaxRows : \E rs \in [1..n -> LogRows] :
           rows = Split(Join(rs, <<"\n">>), "\n")
    /\ safelist \in Safelists
    /\ queries = EmptyDict
    /\ i = 1
    /\ pc = "loop"
    /\ err = "none"
    /\ run = 0
    /\ prev = EmptyDict
    /\ computed = EmptyDict
    /\ query = <<>>
    /\ domain = <<>>
    /\ subdomain = <<>>
    /\ data = <<>>
    /\ entropy = Zero

\* calls of shannon_entropy(subdomain) after the body has run on the row
Computed(cs, qs, row, list) ==
    LET o == Outcome(row, list)
        k == <<o.domain, o.subdomain>>
    IN IF o.kind # "counted" THEN cs
       ELSE IF SubdomainIsNew(WithDomain(qs, o.domain), o.domain, o.subdomain)
            THEN Put(cs, k, IF k \in DOMAIN cs THEN cs[k] + 1 ELSE 1)
            ELSE cs

\* one pass of the body of `for row in rows`
Step ==
    /\ pc = "loop"
    /\ i <= Len(rows)
    /\ LET row == rows[i]
           o == Outcome(row, safelist)
           e == RowError(queries, row, safelist)
       IN IF e # "none"
          THEN /\ err' = e
               /\ pc' = "error"
               /\ UNCHANGED <<queries, i, computed, query, domain, subdomain>>
          ELSE /\ queries' = Body(queries, row, safelist)
               /\ computed' = Computed(computed, queries, row, safelist)
               /\ query' = IF o.kind \in {"safelisted", "counted"} THEN o.query ELSE query
               /\ domain' = IF o.kind \in {"safelisted", "counted"} THEN o.domain ELSE domain
               /\ subdomain' = IF o.kind = "counted" THEN o.subdomain ELSE subdomain
               /\ i' = i + 1
               /\ pc' = IF i + 1 > Len(rows) THEN "done" ELSE "loop"
               /\ err' = err
    /\ UNCHANGED <<rows, safelist, run, prev, data, entropy>>

\* a variant of Reset: the cell starts from the queries of the previous run
ResetKeeps(qs) == qs

\* queries at the start of an execution of cell 4: queries: dict = {}
Reset(qs) == EmptyDict

\* cell 4 is executed again on the same rows
Rerun ==
    /\ pc = "done"
    /\ run < MaxRuns
    /\ prev' = queries
    /\ queries' = Reset(queries)
    /\ computed' = EmptyDict
    /\ i' = 1
    /\ pc' = IF Len(rows) = 0 THEN "done" ELSE "loop"
    /\ run' = run + 1
    /\ UNCHANGED <<rows, safelist, err, query, domain, subdomain, data, entropy>>

Next == Step \/ Rerun

Spec == Init /\ [][Next]_vars

----------------------------------------------------------------------------
(* The derivation of domain and subdomain alone: SpecDerive *)

InitDerive ==
    /\ query \in QueryStrings
    /\ pc = "derive"
    /\ rows = <<>>
    /\ safelist = <<>>
    /\ queries = EmptyDict
    /\ i = 1
    /\ err = "none"
    /\ run = 0
    /\ prev = EmptyDict
    /\ computed = EmptyDict
    /\ domain = <<>>
    /\ subdomain = <<>>
    /\ data = <<>>
    /\ entropy = Zero

\* lines 162 and 170 on the query
Derive ==
    /\ pc = "derive"
    /\ domain' = DomainOf(query)
    /\ subdomain' = SubdomainOf(query, DomainOf(query))
    /\ pc' = "derived"
    /\ UNCHANGED <<rows, safelist, queries, i, err, run, prev, computed,
                   query, data, entropy>>

NextDerive == Derive

SpecDerive == InitDerive /\ [][NextDerive]_vars

----------------------------------------------------------------------------
(* shannon_entropy alone: SpecEntropy *)

InitEntropy ==
    /\ data \in DataStrings
    /\ pc = "entropy"
    /\ rows = <<>>
    /\ safelist = <<>>
    /\ queries = EmptyDict
    /\ i = 1
    /\ err = "none"
    /\ run = 0
    /\ prev = EmptyDict
    /\ computed = EmptyDict
    /\ query = <<>>
    /\ domain = <<>>
    /\ subdomain = <<>>
    /\ entropy = Zero

\* a call of shannon_entropy(data)
CallEntropy ==
    /\ pc = "entropy"
    /\ IF EntropyError(data) # "none"
       THEN /\ err' = EntropyError(data)
            /\ pc' = "error"
            /\ UNCHANGED entropy
       ELSE /\ entropy' = shannon_entropy(data)
            /\ pc' = "returned"
            /\ UNCHANGED err
    /\ UNCHANGED <<rows, safelist, queries, i, run, prev, computed,
                   query, domain, subdomain, data>>

NextEntropy == CallEntropy

SpecEntropy == InitEntropy /\ [][NextEntropy]_vars

----------------------------------------------------------------------------
(* The vocabulary of the claims, stated on the text of a row *)

\* the row starts with "#"
IsComment(row) == Len(row) > 0 /\ row[1] = "#"

\* the number of tab-separated fields of the row
NumFields(row) == Cardinality({k \in DOMAIN row : row[k] = "\t"}) + 1

\* the row is neither a "#" line nor a line of fewer than 24 fields
IsDataLine(row) == ~IsComment(row) /\ NumFields(row) >= MinFields

\* field 9 of a data line
Field9(row) == Fields(row)[QueryField + 1]

\* x equals an entry of the safelist, by whole-string equality
EqualsEntry(x) == \E k \in DOMAIN safelist : safelist[k] = x

\* a safelist entry occurs in x without being equal to it
ContainsEntry(x) ==
    \E k \in DOMAIN safelist : \E j \in 0..(Len(x) - Len(safelist[k])) :
        /\ SubSeq(x, j + 1, j + Len(safelist[k])) = safelist[k]
        /\ safelist[k] # x

\* a data line whose derived domain or whose raw query is a safelist entry
SafelistHit(row) ==
    /\ IsDataLine(row)
    /\ EqualsEntry(DomainOf(Field9(row))) \/ EqualsEntry(Field9(row))

\* a data line that the safelist does not exclude
IsAccepted(row) == IsDataLine(row) /\ ~SafelistHit(row)

----------------------------------------------------------------------------
(* C1 *)

\* C1: a data line whose derived domain, or whose raw query, equals a safelist
\* entry leaves queries unchanged; no safelist entry is ever a key of queries;
\* a data line that matches no entry by equality changes queries, also when
\* its query contains an entry
SafelistExclusion ==
    /\ [](\A k \in DOMAIN safelist : safelist[k] \notin DOMAIN queries)
    /\ [][pc = "loop" =>
            /\ SafelistHit(rows[i]) => queries' = queries
            /\ IsAccepted(rows[i]) => queries' # queries]_vars

\* a safelisted record was skipped and a record whose query contains the
\* entry "b.c" was counted
SafelistExclusionWitness ==
    /\ pc = "done"
    /\ Len(rows) = 2
    /\ SafelistHit(rows[1])
    /\ IsAccepted(rows[2])
    /\ ContainsEntry(Field9(rows[2]))
    /\ DOMAIN queries = {DomainOf(Field9(rows[2]))}

----------------------------------------------------------------------------
(* C2 *)

\* sum of the counts of the subdomains keys of subs
RECURSIVE SumCounts(_, _)
SumCounts(subs, keys) ==
    IF keys = {} THEN 0
    ELSE LET k == CHOOSE x \in keys : TRUE
         IN subs[k].count + SumCounts(subs, keys \ {k})

\* C2: in every state of the loop, the count of every domain is the sum of
\* the counts of its subdomains
CountSum ==
    \A d \in DOMAIN queries :
        queries[d].count = SumCounts(queries[d].subdomains, DOMAIN queries[d].subdomains)

\* a domain with two subdomains and two queries
CountSumWitness ==
    \E d \in DOMAIN queries :
        /\ Cardinality(DOMAIN queries[d].subdomains) = 2
        /\ queries[d].count = 2

----------------------------------------------------------------------------
(* C4 *)

\* the row is a "#" line or has fewer than 24 fields
IsFiltered(row) == IsComment(row) \/ NumFields(row) < MinFields

\* the rows without the filtered ones
Kept(rs) == SelectSeq(rs, LAMBDA r : ~IsFiltered(r))

\* C4: a "#" line or a line of fewer than 24 fields leaves queries unchanged,
\* and the result of a log is the result of the log without these lines
LineFilter ==
    /\ [][pc = "loop" /\ IsFiltered(rows[i]) => queries' = queries]_vars
    /\ [](pc = "done" => queries = Aggregate(EmptyDict, Kept(rows), 1, safelist))

\* a "#" line of 24 fields and a line of 23 fields were passed over
LineFilterWitness ==
    /\ pc = "done"
    /\ Len(rows) = 2
    /\ IsComment(rows[1]) /\ NumFields(rows[1]) >= MinFields
    /\ ~IsComment(rows[2]) /\ NumFields(rows[2]) = MinFields - 1
    /\ safelist = <<>>
    /\ queries = EmptyDict

----------------------------------------------------------------------------
(* C5 *)

\* the input lines that are accepted and whose field 9 has d as its last two labels
AcceptedFor(d) ==
    {k \in DOMAIN rows : IsAccepted(rows[k]) /\ DomainOf(Field9(rows[k])) = d}

\* the domains of the accepted input lines
AcceptedDomains ==
    {DomainOf(Field9(rows[k])) : k \in {j \in DOMAIN rows : IsAccepted(rows[j])}}

\* the step adds 1 to the count of d, and to the count of one subdomain of d,
\* and changes nothing else
OneIncrement(d) ==
    LET oldSubs == IF d \in DOMAIN queries THEN queries[d].subdomains ELSE EmptyDict
        newSubs == queries'[d].subdomains
    IN /\ DOMAIN queries' = DOMAIN queries \cup {d}
       /\ queries'[d].count = (IF d \in DOMAIN queries THEN queries[d].count ELSE 0) + 1
       /\ \A e \in DOMAIN queries' \ {d} : queries'[e] = queries[e]
       /\ \E s \in DOMAIN newSubs :
            /\ DOMAIN newSubs = DOMAIN oldSubs \cup {s}
            /\ newSubs[s].count = (IF s \in DOMAIN oldSubs THEN oldSubs[s].count ELSE 0) + 1
            /\ \A t \in DOMAIN newSubs \ {s} : newSubs[t] = oldSubs[t]

\* C5: at the end the count of every domain is the number of accepted input
\* lines of that domain, the keys are the domains with at least one such line,
\* and every accepted line adds exactly 1 to one domain and one subdomain count
ExactCounts ==
    /\ [](pc = "done" =>
            /\ DOMAIN queries = AcceptedDomains
            /\ \A d \in DOMAIN queries : queries[d].count = Cardinality(AcceptedFor(d)))
    /\ [][pc = "loop" /\ IsAccepted(rows[i]) =>
            OneIncrement(DomainOf(Field9(rows[i])))]_vars

\* two accepted lines of one domain, of 24 fields each, were counted
ExactCountsWitness ==
    /\ pc = "done"
    /\ Len(rows) = 2
    /\ NumFields(rows[1]) = MinFields /\ NumFields(rows[2]) = MinFields
    /\ \E d \in DOMAIN queries : Cardinality(AcceptedFor(d)) = 2 /\ queries[d].count = 2

----------------------------------------------------------------------------
(* C7 *)

\* C7: no run ends in an exception, and the loop reaches its end: while it
\* runs it has a row to process, every pass moves on to the next row, and the
\* pass over the last row ends the loop
Totality ==
    /\ [](err = "none" /\ pc # "error")
    /\ [](pc = "loop" => i \in 1..Len(rows))
    /\ [](pc = "done" => i = Len(rows) + 1)
    /\ [][pc = "loop" =>
            /\ i' = i + 1
            /\ pc' = IF i = Len(rows) THEN "done" ELSE "loop"]_vars

\* the loop ended after an empty line and a record with an empty field 9
TotalityWitness ==
    /\ pc = "done"
    /\ err = "none"
    /\ Len(rows) = 2
    /\ rows[1] = <<>>
    /\ IsDataLine(rows[2]) /\ Field9(rows[2]) = <<>>
    /\ <<>> \in DOMAIN queries

----------------------------------------------------------------------------
(* C8 *)

\* C8: a second execution of the cell on the same rows and safelist ends with
\* the queries the first one ended with
Idempotence == (pc = "done" /\ run >= 1) => queries = prev

\* a second execution ended with two domains
IdempotenceWitness ==
    /\ pc = "done"
    /\ run >= 1
    /\ Cardinality(DOMAIN queries) = 2

----------------------------------------------------------------------------
(* C9 *)

\* the <<domain, subdomain>> pairs that have an aggregate
Pairs ==
    UNION {{<<d, s>> : s \in DOMAIN queries[d].subdomains} : d \in DOMAIN queries}

\* calls of shannon_entropy(subdomain) in this run for the subdomain value s
RECURSIVE CallsFor(_, _)
CallsFor(s, keys) ==
    IF keys = {} THEN 0
    ELSE LET k == CHOOSE x \in keys : TRUE
         IN (IF k[2] = s THEN computed[k] ELSE 0) + CallsFor(s, keys \ {k})

\* C9 as stated: the entropy is computed exactly once per distinct subdomain
\* value of a run, and the stored entropy is that of the subdomain key
EntropyOncePerValue ==
    /\ \A k \in DOMAIN computed : CallsFor(k[2], DOMAIN computed) = 1
    /\ \A k \in Pairs :
           queries[k[1]].subdomains[k[2]].entropy = shannon_entropy(k[2])

\* C9 amended: the entropy is computed exactly once per subdomain of each
\* domain, when its aggregate is created; the entropy of an existing aggregate
\* is never written again; the stored entropy is that of the subdomain key
EntropyOncePerEntry ==
    /\ [](/\ DOMAIN computed = Pairs
          /\ \A k \in Pairs :
                /\ computed[k] = 1
                /\ queries[k[1]].subdomains[k[2]].entropy = shannon_entropy(k[2]))
    /\ [][pc = "loop" =>
            \A k \in Pairs :
                /\ k \in Pairs'
                /\ computed'[k] = computed[k]
                /\ queries'[k[1]].subdomains[k[2]].entropy
                     = queries[k[1]].subdomains[k[2]].entropy]_vars

\* a subdomain of entropy other than 0 was seen on two records
EntropyOncePerEntryWitness ==
    /\ pc = "done"
    /\ \E k \in Pairs :
         /\ queries[k[1]].subdomains[k[2]].count = 2
         /\ queries[k[1]].subdomains[k[2]].entropy # Zero
         /\ computed[k] = 1

----------------------------------------------------------------------------
(* C10 *)

\* the permutations of 1..n
Perms(n) == {f \in [1..n -> 1..n] : \A a, b \in 1..n : f[a] = f[b] => a = b}

\* the rows in the order f
Reorder(rs, f) == [k \in 1..Len(rs) |-> rs[f[k]]]

\* C10: the loop over the rows in any other order ends with the same queries,
\* and in every state of the loop the next two rows can be swapped
OrderIndependence ==
    /\ pc = "done" =>
         \A f \in Perms(Len(rows)) :
             Aggregate(EmptyDict, Reorder(rows, f), 1, safelist) = queries
    /\ pc = "loop" /\ i < Len(rows) =>
         Body(Body(queries, rows[i], safelist), rows[i + 1], safelist)
           = Body(Body(queries, rows[i + 1], safelist), rows[i], safelist)

\* two different accepted lines of one domain were counted
OrderIndependenceWitness ==
    /\ pc = "done"
    /\ Len(rows) = 2
    /\ rows[1] # rows[2]
    /\ IsAccepted(rows[1]) /\ IsAccepted(rows[2])
    /\ DomainOf(Field9(rows[1])) = DomainOf(Field9(rows[2]))
    /\ Field9(rows[1]) # Field9(rows[2])

----------------------------------------------------------------------------
(* C6 *)

\* every character of s occurs as often as every other
IsUniform(s) ==
    /\ s # <<>>
    /\ \A a, b \in Range(s) :
         Cardinality({k \in DOMAIN s : s[k] = a}) = Cardinality({k \in DOMAIN s : s[k] = b})

\* the number of distinct characters of s that occur c times
Multiplicity(s, c) ==
    Cardinality({ch \in Range(s) : Cardinality({k \in DOMAIN s : s[k] = ch}) = c})

\* sum over the counts c <= n of Multiplicity(s, c) * c * log2(c)
RECURSIVE WeightedLogs(_, _)
WeightedLogs(s, n) ==
    IF n = 0 THEN Zero
    ELSE Plus(Scale(Rat(Multiplicity(s, n) * n, 1), Log2(Rat(n, 1))),
              WeightedLogs(s, n - 1))

\* -sum p(c) * log2(p(c)) as a function of the multiset of the counts:
\* log2(n) - (1/n) * sum of count * log2(count), n the sum of the counts
ByCounts(s) ==
    Plus(Log2(Rat(Len(s), 1)), Scale(Rat(-1, Len(s)), WeightedLogs(s, Len(s))))

\* C6: shannon_entropy returns 0 for the empty string and for a string of one
\* repeated character, log2(k) for k equally frequent characters, and in
\* general the value that the multiset of the character counts determines
EntropyValues ==
    pc = "returned" =>
        /\ data = <<>> => entropy = Zero
        /\ Cardinality(Range(data)) = 1 => entropy = Zero
        /\ IsUniform(data) => entropy = Log2(Rat(Cardinality(Range(data)), 1))
        /\ data # <<>> => entropy = ByCounts(data)

\* four different characters: the entropy is 2
EntropyValuesWitness ==
    /\ pc = "returned"
    /\ Len(data) = 4
    /\ Cardinality(Range(data)) = 4
    /\ entropy = [p \in Primes |-> IF p = 2 THEN Rat(2, 1) ELSE Rat(0, 1)]

----------------------------------------------------------------------------
(* C3 *)

\* C3: the subdomain is the query without its trailing "." + domain, so that
\* subdomain + "." + domain is the query when the query has more than two
\* labels, and the subdomain is empty when the query is its domain.  (The
\* converse, an empty subdomain only when the query is its domain, is left out
\* of the formula: a query "." + domain has labels "", x, y and an empty
\* subdomain with any derivation.)
SubdomainDerivation ==
    pc = "derived" =>
        /\ Len(Split(query, ".")) > 2 => subdomain \o <<".">> \o domain = query
        /\ query = domain => subdomain = <<>>

====
